---- MODULE Spec2Model ----
(***************************************************************************)
(* speed-chat backend (src/backend/app.py, src/backend/database.py): one   *)
(* shared document (config, lines, people, general wait queue) in a SQL    *)
(* store, a process-wide version counter, REST and Socket.IO handlers that *)
(* run on separate threads (async_mode="threading").  The DynamoDB variant *)
(* (src/backend/speed-chat-backend/src/app.py) keeps the document as one   *)
(* item and is modelled by its own variables and its own specification.   *)
(*                                                                         *)
(* Each handler is a thread of control; an action is one step of a handler *)
(* between two accesses to shared state (the store, the global counter,    *)
(* the set of connections).  Optional values (a JSON key that may be       *)
(* missing, Python's None) are sequences of length 0 or 1.                 *)
(***************************************************************************)
EXTENDS Integers, Sequences, FiniteSets, TLC

\* ------------------------------------------------------------------ bounds
\* Cap on the number of saves that commit (bounds ids and the counter).
MaxCommits == 2
\* Last instant of the DynamoDB variant's clock.
MaxClock == 2
\* How far behind the counter the stalest claimed version tried is.
StaleRange == 6

\* --------------------------------------------------------------- constants
\* app.py:118  client_version < current_state_version - 5
StalenessThreshold == 5

\* Worker threads; a request is served by the first free one.
ThreadOrder == <<"t1", "t2">>
Threads == {ThreadOrder[i] : i \in 1..Len(ThreadOrder)}
\* Socket.IO connections; the events (get_state, state_saved) come from the
\* connections in Senders, the others only receive.
Sids == {"c1", "c2"}
Senders == {"c1"}
NoSid == "rest"

VARIABLES
    current_state_version,  \* app.py:35 global counter
    db,                     \* committed rows of the store (database.py tables)
    connected,              \* sids of the connected Socket.IO clients
    pc,                     \* per thread: position in its handler
    kind,                   \* per thread: which handler it runs
    sid,                    \* per thread: the connection whose event it handles
    state,                  \* per thread: the request payload (save handlers)
    sess,                   \* per thread: the session's pending changes
    reg,                    \* per thread: value loaded by `current_state_version += 1`
    doc,                    \* per thread: dict built by get_state_from_db
    outcome,                \* per thread: how the handler's try block ended
    sent,                   \* what the last step sent: a response or an emitted event
    commits,                \* history: number of db.commit() of save_state_to_db that succeeded
    lastSaved,              \* history: the payload of the last save that committed
    saved,                  \* history: per commit, its payload and the content it left stored
    own,                    \* history, per thread: which commit (index in saved) its save made
    attempt,                \* per thread: loop variable of its get_db_with_retry generator
    pushed,                 \* history: highest version of a state_updated that reached a client
    recording,              \* whether the histories saved, own and pushed are kept
    \* the DynamoDB variant (speed-chat-backend/src/app.py)
    clock,                  \* datetime.utcnow()
    item,                   \* the table's item "current_state", if any
    lpc,                    \* per invocation: position in its Lambda handler
    lreq,                   \* per invocation: the request body
    lstatus                 \* per invocation: the statusCode it returns

\* the variables of the DynamoDB variant
dynVars == <<clock, item, lpc, lreq, lstatus>>
\* the variables of the SQL backend
sqlVars == <<current_state_version, db, connected, pc, kind, sid, state, sess,
             reg, doc, outcome, sent, commits, lastSaved, saved, own, attempt,
             pushed, recording>>
vars == <<sqlVars, recording, dynVars>>

\* ------------------------------------------------------------ optional values
Absent == <<>>
Some(v) == <<v>>
\* dict.get(key, default)
Get(opt, default) == IF opt = Absent THEN default ELSE opt[1]

RECURSIVE Flatten(_)
Flatten(ss) == IF ss = <<>> THEN <<>> ELSE Head(ss) \o Flatten(Tail(ss))

\* ------------------------------------------------------------------ the store
\* database.py:43-49 column defaults of Config
DefaultConfig ==
    [session_duration |-> "30", alarm_interval |-> "5",
     max_people_per_line |-> "10", blink_before_start |-> FALSE,
     blink_time |-> "5", finish_window |-> "5", auto_reschedule |-> "off"]

\* init_db(): the tables exist and hold no row
EmptyDb ==
    [config |-> <<>>, lines |-> {}, people |-> {}, wait |-> {},
     seq |-> [lines |-> 0, people |-> 0, wait |-> 0]]

\* init_db() on a store an earlier run of the process filled (create_all keeps
\* the rows): line A with Alice
StoreAlice ==
    [config |-> <<DefaultConfig>>,
     lines |-> {[id |-> 1, name |-> "A", time |-> "9:00"]},
     people |-> {[id |-> 1, line_id |-> 1, name |-> "Alice"]},
     wait |-> {},
     seq |-> [lines |-> 1, people |-> 1, wait |-> 0]]

InitialStores == {EmptyDb, StoreAlice}

\* ------------------------------------------------------------ request payloads
\* The JSON body of POST /state and of the state_saved event: an optional
\* "version", an optional "config" object, and the other top-level keys.
EmptyDict ==
    [sessionDuration |-> Absent, alarmInterval |-> Absent,
     maxPeoplePerLine |-> Absent, blinkBeforeStart |-> Absent,
     blinkTime |-> Absent, finishWindow |-> Absent, autoReschedule |-> Absent,
     lines |-> Absent, generalWaitQueue |-> Absent]

PersonData(i, n) == [id |-> i, name |-> n]
LineData(n, t, ps) == [name |-> n, time |-> t, people |-> ps]

\* A config body with every field present.
ConfigBody(maxPeople, lines, waitQueue) ==
    [sessionDuration |-> Some("45"), alarmInterval |-> Some("5"),
     maxPeoplePerLine |-> maxPeople, blinkBeforeStart |-> Some(TRUE),
     blinkTime |-> Some("5"), finishWindow |-> Some("5"),
     autoReschedule |-> Some("off"),
     lines |-> Some(lines), generalWaitQueue |-> Some(waitQueue)]

\* line A with Alice
BodyAlice ==
    ConfigBody(Some("8"), <<LineData("A", "9:00", <<PersonData(1, "Alice")>>)>>, <<>>)
\* line A at a new time, with person 1 renamed and a person whose id the
\* client made up; one person in the general wait queue
BodyBob ==
    ConfigBody(Some("8"),
               <<LineData("A", "9:15", <<PersonData(1, "Alicia"), PersonData(7, "Bob")>>)>>,
               <<PersonData(9, "Carol")>>)
\* line B only, a non-numeric maxPeoplePerLine
BodyB ==
    ConfigBody(Some("abc"), <<LineData("B", "10:00", <<>>)>>, <<>>)
\* the same line name twice, no maxPeoplePerLine
BodyDup ==
    ConfigBody(Absent,
               <<LineData("A", "9:30", <<PersonData(7, "Bob")>>),
                 LineData("A", "9:30", <<>>)>>,
               <<>>)

Bodies == {BodyAlice, BodyBob, BodyB, BodyDup}

\* The "version" values tried when the counter is `current`: none, StaleRange
\* behind, one nearer, and one ahead.
ClientVersions(current) ==
    {Absent} \cup {Some(c) : c \in {current - StaleRange, current - StaleRange + 1,
                                     current + 1}}

\* Payloads with a "config" key, and the bare form whose keys are at top level.
Payloads ==
    {[config |-> Some(b), top |-> EmptyDict] : b \in Bodies}
    \cup {[config |-> Absent, top |-> BodyAlice]}

\* The payloads of the requests that race with each other.
RacePayloads ==
    {[config |-> Some(b), top |-> EmptyDict] : b \in {BodyBob, BodyB}}

NoState == [version |-> Absent, config |-> Absent, top |-> EmptyDict]
NoPayload == [config |-> Absent, top |-> EmptyDict]
Payload(st) == [config |-> st.config, top |-> st.top]

\* ------------------------------------------------------- get_state_from_db
\* app.py:64-69  the first config row, created with the column defaults when
\* the table is empty (db.add, db.commit)
EnsureConfig(d) ==
    IF d.config = <<>> THEN [d EXCEPT !.config = <<DefaultConfig>>] ELSE d

\* app.py:71-107  the dict without its "version" and "timestamp"; the queries
\* have no ORDER BY, so the lists are modelled as sets
Content(d) ==
    LET config == d.config[1] IN
    [sessionDuration |-> config.session_duration,
     alarmInterval |-> config.alarm_interval,
     maxPeoplePerLine |-> config.max_people_per_line,
     blinkBeforeStart |-> config.blink_before_start,
     blinkTime |-> config.blink_time,
     finishWindow |-> config.finish_window,
     autoReschedule |-> config.auto_reschedule,
     lines |-> {[id |-> l.id, name |-> l.name, time |-> l.time,
                 people |-> {[id |-> p.id, name |-> p.name] :
                             p \in {q \in d.people : q.line_id = l.id}}] :
                l \in d.lines},
     generalWaitQueue |-> {[id |-> w.id, name |-> w.name] : w \in d.wait}]

NoContent == [none |-> TRUE]
NoDoc == [version |-> 0 - 1, config |-> NoContent]

\* -------------------------------------------------------- save_state_to_db
\* the conflict test with the boundary value on the wrong side
IsStale_inclusive(client_version, current) ==
    client_version /= Absent /\ client_version[1] <= current - StalenessThreshold

\* app.py:118  the conflict test on the claimed version
IsStale(client_version, current) ==
    client_version /= Absent /\ client_version[1] < current - StalenessThreshold

\* app.py:125  state.get("config", {})
ConfigData(st) == Get(st.config, EmptyDict)

\* app.py:133-139  the config columns, each with its own default
ConfigValues(config_data) ==
    [session_duration |-> Get(config_data.sessionDuration, "30"),
     alarm_interval |-> Get(config_data.alarmInterval, "5"),
     max_people_per_line |-> Get(config_data.maxPeoplePerLine, "10"),
     blink_before_start |-> Get(config_data.blinkBeforeStart, FALSE),
     blink_time |-> Get(config_data.blinkTime, "5"),
     finish_window |-> Get(config_data.finishWindow, "5"),
     auto_reschedule |-> Get(config_data.autoReschedule, "off")]

\* app.py:142  {line.name: line for line in db.query(Line).all()}: one row per
\* name; when several rows carry a name the query's order picks the one kept
ExistingLineDicts(d) ==
    LET names == {l.name : l \in d.lines} IN
    {f \in [names -> d.lines] : \A n \in names : f[n].name = n}

\* app.py:160  the ids of the stored people of a line
StoredPeople(d, line_id) == {p.id : p \in {q \in d.people : q.line_id = line_id}}

\* app.py:169-172  the people of one incoming line that get a new Person row
PeopleToAdd(new_people, existing_ids) ==
    SelectSeq(new_people, LAMBDA person_data : person_data.id \notin existing_ids)

\* app.py:164-166  the stored people of a line that get deleted
PeopleToDelete(new_people, existing_ids) ==
    {i \in existing_ids : ~ \E k \in 1..Len(new_people) : new_people[k].id = i}

NoSess ==
    [raised |-> FALSE, cfgNew |-> FALSE, cfg |-> DefaultConfig,
     delLines |-> {}, updTime |-> {}, newLines |-> <<>>,
     delPeople |-> {}, addPeople |-> <<>>, delWait |-> {}, addWait |-> <<>>]

\* app.py:125-187  what the session holds when db.commit() is reached, from
\* the rows `d` the queries returned and the dict `existing_lines`.
\*   raised:    an exception left the try block before db.commit()
\*   delPeople: includes the people of deleted lines (relationship cascade
\*              "all, delete-orphan", database.py:58, collected by db.delete)
\*   addPeople: [new, line, name], line being a stored line's id or, for a
\*              Line created by this save, its index in newLines
Reconcile(d, existing_lines, config_data) ==
    LET new_lines == Get(config_data.lines, <<>>)
        n == Len(new_lines)
        known(i) == new_lines[i].name \in DOMAIN existing_lines
        line(i) == existing_lines[new_lines[i].name]
        existing_people(i) == IF known(i) THEN StoredPeople(d, line(i).id) ELSE {}
        toAdd(i) == PeopleToAdd(new_lines[i].people, existing_people(i))
        \* index among the Line objects this save creates
        newIndex(i) == Cardinality({j \in 1..i : ~known(j)})
        removed == {existing_lines[nm] : nm \in
                      {m \in DOMAIN existing_lines :
                         ~ \E i \in 1..n : new_lines[i].name = m}}
        \* a line named twice: the second pass finds the Person objects the
        \* first pass added in line.people, with id None, and db.delete of a
        \* pending object raises InvalidRequestError
        pendingDeleted ==
            \E i \in 1..n : \E j \in 1..(i - 1) :
                /\ known(i)
                /\ new_lines[j].name = new_lines[i].name
                /\ toAdd(j) /= <<>>
        lastTime(nm) ==
            LET last == CHOOSE i \in 1..n :
                          /\ new_lines[i].name = nm
                          /\ \A j \in (i + 1)..n : new_lines[j].name /= nm
            IN new_lines[last].time
        existing_wait_queue == {w.id : w \in d.wait}
        new_wait_queue == Get(config_data.generalWaitQueue, <<>>)
        addW == PeopleToAdd(new_wait_queue, existing_wait_queue)
    IN
    [raised |-> pendingDeleted,
     cfgNew |-> d.config = <<>>,
     cfg |-> ConfigValues(config_data),
     delLines |-> {l.id : l \in removed},
     updTime |-> {[id |-> existing_lines[nm].id, time |-> lastTime(nm)] :
                  nm \in {m \in DOMAIN existing_lines :
                            /\ \E i \in 1..n : new_lines[i].name = m
                            /\ lastTime(m) /= existing_lines[m].time}},
     newLines |-> [k \in 1..Cardinality({j \in 1..n : ~known(j)}) |->
                     LET i == CHOOSE i \in 1..n : ~known(i) /\ newIndex(i) = k
                     IN [name |-> new_lines[i].name, time |-> new_lines[i].time]],
     delPeople |-> UNION {PeopleToDelete(new_lines[i].people, existing_people(i)) :
                          i \in 1..n}
                   \cup UNION {StoredPeople(d, l.id) : l \in removed},
     addPeople |-> Flatten([i \in 1..n |->
                     [k \in 1..Len(toAdd(i)) |->
                        [new |-> ~known(i),
                         line |-> IF known(i) THEN line(i).id ELSE newIndex(i),
                         name |-> toAdd(i)[k].name]]]),
     delWait |-> PeopleToDelete(new_wait_queue, existing_wait_queue),
     addWait |-> [k \in 1..Len(addW) |-> addW[k].name]]

\* db.commit() can succeed: an UPDATE of a row that is gone raises
\* StaleDataError (app.py:157 line.time on a line deleted meanwhile)
CanFlush(d, s) == \A u \in s.updTime : \E l \in d.lines : l.id = u.id

\* app.py:189  db.commit(): the flush of the session's pending changes against
\* the current rows `d`, in one transaction; ids come from the tables' counters.
\* The store is the default one, SQLite (database.py:18), on which no
\* PRAGMA foreign_keys=ON is issued: the ForeignKey of database.py:65 is not
\* enforced and its ondelete="CASCADE" deletes nothing, so the only people
\* deleted with a line are those the session collected (s.delPeople).
Flush(d, s) ==
    LET lineId(k) == d.seq.lines + k
        keptLines == {l \in d.lines : l.id \notin s.delLines}
        timeOf(l) == IF \E u \in s.updTime : u.id = l.id
                     THEN (CHOOSE u \in s.updTime : u.id = l.id).time
                     ELSE l.time
    IN
    [config |-> IF s.cfgNew THEN Append(d.config, s.cfg)
                ELSE [d.config EXCEPT ![1] = s.cfg],
     lines |-> {[id |-> l.id, name |-> l.name, time |-> timeOf(l)] : l \in keptLines}
               \cup {[id |-> lineId(k), name |-> s.newLines[k].name,
                      time |-> s.newLines[k].time] : k \in 1..Len(s.newLines)},
     people |-> {p \in d.people : p.id \notin s.delPeople}
                \cup {[id |-> d.seq.people + k,
                       line_id |-> IF s.addPeople[k].new
                                   THEN lineId(s.addPeople[k].line)
                                   ELSE s.addPeople[k].line,
                       name |-> s.addPeople[k].name] : k \in 1..Len(s.addPeople)},
     wait |-> {w \in d.wait : w.id \notin s.delWait}
              \cup {[id |-> d.seq.wait + k, name |-> s.addWait[k]] :
                    k \in 1..Len(s.addWait)},
     seq |-> [lines |-> d.seq.lines + Len(s.newLines),
              people |-> d.seq.people + Len(s.addPeople),
              wait |-> d.seq.wait + Len(s.addWait)]]

\* a rollback that leaves the line deletions behind
Rollback_partial(d, s) ==
    [d EXCEPT !.lines = {l \in d.lines : l.id \notin s.delLines}]

\* app.py:196  db.rollback(): the pending changes are dropped, the rows stay
Rollback(d, s) == d

\* -------------------------------------------------------- get_db_with_retry
\* app.py:39  max_retries=3
max_retries == 3

\* app.py:46  the exceptions the generator catches, and any other
TransientErrors == {"OperationalError", "DisconnectionError"}
Exceptions == TransientErrors \cup {"Exception"}

\* app.py:38-57  what leaves the `with get_db_with_retry()` block when its
\* body raises exc while the generator is in iteration `a` of its loop.  The
\* exception is thrown into the generator at its yield.  A transient one is
\* caught; before the last iteration the generator sleeps, closes the session
\* and loops, so it yields a second session instead of finishing, and
\* contextlib's __exit__ answers a generator that yields after throw() with
\* RuntimeError("generator didn't stop after throw()"): the body is not run
\* again.  On the last iteration, and for any other exception, exc propagates.
WithExit(a, exc) ==
    IF exc \in TransientErrors /\ a < max_retries - 1
    THEN [attempt |-> a + 1, raises |-> "RuntimeError"]
    ELSE [attempt |-> a, raises |-> exc]

\* app.py:225-230, 280-285  the handler's except clauses
Caught(exc) == IF exc = "ValueError" THEN "conflict" ELSE "error"

\* ------------------------------------------- DynamoDB variant: data
\* concurrent invocations of the Lambda handlers
Lambdas == {"l1", "l2"}

\* Instants are integers; the ISO string of an instant (isoformat, app.py:90)
\* is written as the instant, dateutil's parse of it gives the instant back.
\* NotADate is a string that parser.parse rejects.
NotADate == 0 - 1
Instants == 0..MaxClock

\* the documents clients send as "state"
Documents == {"doc1", "doc2"}

\* app.py:50-52  the request bodies: "state" and "lastModified", each
\* possibly missing
RequestBodies ==
    {[state |-> st, lastModified |-> lm] :
        st \in {Absent} \cup {Some(d) : d \in Documents},
        lm \in {Absent} \cup {Some(n) : n \in Instants \cup {NotADate}}}

NoBody == [state |-> Absent, lastModified |-> Absent]

\* the table holds no item, no invocation runs
DynamoBoot ==
    /\ clock = 0
    /\ item = Absent
    /\ lpc = [l \in Lambdas |-> "idle"]
    /\ lreq = [l \in Lambdas |-> NoBody]
    /\ lstatus = [l \in Lambdas |-> "none"]

\* ------------------------------------------------------------------ handlers
SaveKinds == {"post", "saved"}
ReadKinds == {"get", "connect", "pull"}

\* saves that may still commit
SavesInFlight ==
    {t \in Threads : kind[t] \in SaveKinds /\ pc[t] \in {"reconcile", "commit"}}

\* the thread that takes the next request
Free(t) ==
    /\ pc[t] = "idle"
    /\ \A i, j \in 1..Len(ThreadOrder) :
         (ThreadOrder[j] = t /\ i < j) => pc[ThreadOrder[i]] /= "idle"

NoSent == [event |-> "none", to |-> {}, kind |-> "none", sid |-> NoSid, body |-> NoDoc]

\* The process has started on `store`: module level of app.py (init_db(), the
\* counter at 0, no client connected, no request in progress).
Boot(store) ==
    /\ current_state_version = 0
    /\ db = store
    /\ connected = {}
    /\ pc = [t \in Threads |-> "idle"]
    /\ kind = [t \in Threads |-> "none"]
    /\ sid = [t \in Threads |-> NoSid]
    /\ state = [t \in Threads |-> NoState]
    /\ sess = [t \in Threads |-> NoSess]
    /\ reg = [t \in Threads |-> 0]
    /\ doc = [t \in Threads |-> NoDoc]
    /\ outcome = [t \in Threads |-> "none"]
    /\ sent = NoSent
    /\ commits = 0
    /\ lastSaved = NoPayload
    /\ saved = <<>>
    /\ own = [t \in Threads |-> 0]
    /\ attempt = [t \in Threads |-> 0]
    /\ pushed = 0
    /\ DynamoBoot

\* The racing handlers are explored on a store that an earlier run filled
\* (the rows outlive the process, the counter restarts at 0).
Init == Boot(StoreAlice) /\ recording = FALSE

\* The same runs, with the histories kept.
InitRec == Boot(StoreAlice) /\ recording = TRUE

\* The sequential runs start on either store.
InitSeq == (\E store \in InitialStores : Boot(store)) /\ recording = TRUE

\* app.py:201-205  GET /state enters get_state_from_db
StartGet(t) ==
    /\ Free(t)
    /\ pc' = [pc EXCEPT ![t] = "load"]
    /\ kind' = [kind EXCEPT ![t] = "get"]
    /\ sent' = NoSent
    /\ UNCHANGED <<current_state_version, db, connected, sid, state, sess, reg,
                   doc, outcome, commits, lastSaved, saved, own, attempt, pushed,
                   recording, dynVars>>

\* app.py:233-238  a client connects: it joins the namespace and the handler
\* enters get_state_from_db
StartConnect(t, s) ==
    /\ Free(t)
    /\ s \notin connected
    /\ connected' = connected \cup {s}
    /\ pc' = [pc EXCEPT ![t] = "load"]
    /\ kind' = [kind EXCEPT ![t] = "connect"]
    /\ sid' = [sid EXCEPT ![t] = s]
    /\ sent' = NoSent
    /\ UNCHANGED <<current_state_version, db, state, sess, reg, doc, outcome,
                   commits, lastSaved, saved, own, attempt, pushed,
                   recording, dynVars>>

\* app.py:250-252  a client leaves the namespace
Disconnect(s) ==
    /\ s \in connected
    /\ connected' = connected \ {s}
    /\ sent' = NoSent
    /\ UNCHANGED <<current_state_version, db, pc, kind, sid, state, sess, reg,
                   doc, outcome, commits, lastSaved, saved, own, attempt, pushed,
                   recording, dynVars>>

\* app.py:255-260  a connected client sends get_state
StartPull(t, s) ==
    /\ Free(t)
    /\ s \in connected
    /\ pc' = [pc EXCEPT ![t] = "load"]
    /\ kind' = [kind EXCEPT ![t] = "pull"]
    /\ sid' = [sid EXCEPT ![t] = s]
    /\ sent' = NoSent
    /\ UNCHANGED <<current_state_version, db, connected, state, sess, reg, doc,
                   outcome, commits, lastSaved, saved, own, attempt, pushed,
                   recording, dynVars>>

\* a rejection that has already advanced the counter
RejectStale_bump(t) ==
    /\ pc' = [pc EXCEPT ![t] = "respond"]
    /\ outcome' = [outcome EXCEPT ![t] = "conflict"]
    /\ current_state_version' = current_state_version + 1
    /\ UNCHANGED <<db, connected, sess, reg, doc, commits, lastSaved, saved, own, attempt, pushed,
                   recording, dynVars>>

\* app.py:118-122  the claimed version is too far behind: ValueError, before
\* the store is touched
RejectStale(t) ==
    /\ pc' = [pc EXCEPT ![t] = "respond"]
    /\ outcome' = [outcome EXCEPT ![t] = "conflict"]
    /\ UNCHANGED <<current_state_version, db, connected, sess, reg, doc,
                   commits, lastSaved, saved, own, attempt, pushed,
                   recording, dynVars>>

\* app.py:118  save_state_to_db reads the counter and tests the claimed
\* version; this read is the handler's first access to shared state
CheckVersion(t) ==
    IF IsStale(state'[t].version, current_state_version)
    THEN RejectStale(t)
    ELSE /\ pc' = [pc EXCEPT ![t] = "reconcile"]
         /\ UNCHANGED <<current_state_version, db, connected, sess, reg, doc,
                        outcome, commits, lastSaved, saved, own, attempt, pushed,
                   recording, dynVars>>

\* app.py:216-221  POST /state: the body and its "version", up to the test of
\* the claimed version
StartPost(t, payload, client_version) ==
    /\ Free(t)
    /\ commits + Cardinality(SavesInFlight) < MaxCommits
    /\ kind' = [kind EXCEPT ![t] = "post"]
    /\ sid' = sid
    /\ state' = [state EXCEPT ![t] =
                   [version |-> client_version, config |-> payload.config,
                    top |-> payload.top]]
    /\ sent' = NoSent
    /\ CheckVersion(t)

\* app.py:268-274  a connected client sends state_saved, up to the test of the
\* claimed version
StartSaved(t, s, payload, client_version) ==
    /\ Free(t)
    /\ s \in connected
    /\ commits + Cardinality(SavesInFlight) < MaxCommits
    /\ kind' = [kind EXCEPT ![t] = "saved"]
    /\ sid' = [sid EXCEPT ![t] = s]
    /\ state' = [state EXCEPT ![t] =
                   [version |-> client_version, config |-> payload.config,
                    top |-> payload.top]]
    /\ sent' = NoSent
    /\ CheckVersion(t)

\* app.py:125-187  the queries and the diff; nothing is written before commit
\* (autoflush=False, database.py:35)
ReconcileStep(t) ==
    /\ pc[t] = "reconcile"
    /\ \E existing_lines \in ExistingLineDicts(db) :
         sess' = [sess EXCEPT ![t] = Reconcile(db, existing_lines, ConfigData(state[t]))]
    /\ state' = [state EXCEPT ![t].version = Absent]
    /\ pc' = [pc EXCEPT ![t] = "commit"]
    /\ sent' = NoSent
    /\ UNCHANGED <<current_state_version, db, connected, kind, sid, reg, doc,
                   outcome, commits, lastSaved, saved, own, attempt, pushed,
                   recording, dynVars>>

\* app.py:189  db.commit() succeeds
CommitStep(t) ==
    /\ pc[t] = "commit"
    /\ ~sess[t].raised
    /\ CanFlush(db, sess[t])
    /\ db' = Flush(db, sess[t])
    /\ commits' = commits + 1
    /\ lastSaved' = Payload(state[t])
    /\ saved' = IF recording
                THEN Append(saved, [payload |-> Payload(state[t]), content |-> Content(db')])
                ELSE saved
    /\ own' = IF recording THEN [own EXCEPT ![t] = commits + 1] ELSE own
    /\ sess' = [sess EXCEPT ![t] = NoSess]
    /\ state' = [state EXCEPT ![t] = NoState]
    /\ pc' = [pc EXCEPT ![t] = "bump_load"]
    /\ sent' = NoSent
    /\ UNCHANGED <<current_state_version, connected, kind, sid, reg, doc,
                   outcome, attempt,
                   pushed, recording, dynVars>>

\* app.py:195-198  an exception inside the try block (a query, the diff or
\* db.commit() itself): rollback and re-raise
SaveFails(t, exc) ==
    /\ pc[t] \in {"reconcile", "commit"}
    /\ db' = Rollback(db, sess[t])
    /\ sess' = [sess EXCEPT ![t] = NoSess]
    /\ state' = [state EXCEPT ![t] = NoState]
    /\ attempt' = [attempt EXCEPT ![t] = WithExit(attempt[t], exc).attempt]
    /\ outcome' = [outcome EXCEPT ![t] = Caught(WithExit(attempt[t], exc).raises)]
    /\ pc' = [pc EXCEPT ![t] = "respond"]
    /\ sent' = NoSent
    /\ UNCHANGED <<current_state_version, connected, kind, sid, reg, doc,
                   commits, lastSaved, saved, own, pushed, recording, dynVars>>

\* app.py:191  current_state_version += 1 is a load, an add and a store of a
\* global with no lock: the load
BumpLoad(t) ==
    /\ pc[t] = "bump_load"
    /\ reg' = [reg EXCEPT ![t] = current_state_version]
    /\ pc' = [pc EXCEPT ![t] = "bump_store"]
    /\ sent' = NoSent
    /\ UNCHANGED <<current_state_version, db, connected, kind, sid, state, sess,
                   doc, outcome, commits, lastSaved, saved, own, attempt, pushed,
                   recording, dynVars>>

\* app.py:191  ... and the store
BumpStore(t) ==
    /\ pc[t] = "bump_store"
    /\ current_state_version' = reg[t] + 1
    /\ reg' = [reg EXCEPT ![t] = 0]
    /\ pc' = [pc EXCEPT ![t] = "load"]
    /\ sent' = NoSent
    /\ UNCHANGED <<db, connected, kind, sid, state, sess, doc, outcome,
                   commits, lastSaved, saved, own, attempt, pushed,
                   recording, dynVars>>

\* app.py:64-90  get_state_from_db queries the rows
LoadStep(t) ==
    /\ pc[t] = "load"
    /\ db' = EnsureConfig(db)
    /\ doc' = [doc EXCEPT ![t] = [version |-> 0 - 1, config |-> Content(db')]]
    /\ pc' = [pc EXCEPT ![t] = "tag"]
    /\ sent' = NoSent
    /\ UNCHANGED <<current_state_version, connected, kind, sid, state, sess, reg,
                   outcome, commits, lastSaved, saved, own, attempt, pushed,
                   recording, dynVars>>

\* a read that advances the counter
TagStep_bump(t) ==
    /\ pc[t] = "tag"
    /\ current_state_version' = current_state_version + 1
    /\ doc' = [doc EXCEPT ![t].version = current_state_version + 1]
    /\ outcome' = [outcome EXCEPT ![t] = "success"]
    /\ pc' = [pc EXCEPT ![t] = "respond"]
    /\ sent' = NoSent
    /\ UNCHANGED <<db, connected, kind, sid, state, sess, reg, commits,
                   lastSaved, saved, own, attempt, pushed,
                   recording, dynVars>>

\* app.py:93-94  ... and tags them with the counter's value
TagStep(t) ==
    /\ pc[t] = "tag"
    /\ doc' = [doc EXCEPT ![t].version = current_state_version]
    /\ outcome' = [outcome EXCEPT ![t] = "success"]
    /\ pc' = [pc EXCEPT ![t] = "respond"]
    /\ sent' = NoSent
    /\ UNCHANGED <<current_state_version, db, connected, kind, sid, state, sess,
                   reg, commits, lastSaved, saved, own, attempt, pushed,
                   recording, dynVars>>

\* app.py:108-110  a query of get_state_from_db raises
LoadFails(t, exc) ==
    /\ pc[t] = "load"
    /\ attempt' = [attempt EXCEPT ![t] = WithExit(attempt[t], exc).attempt]
    /\ outcome' = [outcome EXCEPT ![t] = Caught(WithExit(attempt[t], exc).raises)]
    /\ pc' = [pc EXCEPT ![t] = "respond"]
    /\ sent' = NoSent
    /\ UNCHANGED <<current_state_version, db, connected, kind, sid, state, sess,
                   reg, doc, commits, lastSaved, saved, own, pushed, recording, dynVars>>

\* socketio.emit(event, data, namespace="/") names no recipient: every client
\* connected to the namespace receives it
Emit(event, body) == [event |-> event, to |-> connected, body |-> body]
\* a REST response goes to the caller alone, over HTTP
Reply(status, body) == [event |-> status, to |-> {}, body |-> body]

\* app.py:207-210, 224-230, 239-247, 261-265, 278-285  what each handler sends
Response(k, o, body) ==
    CASE k = "get" /\ o = "success" -> Reply("200", body)
      [] k = "get" -> Reply("500", NoDoc)
      [] k = "post" /\ o = "success" -> Reply("200", body)
      [] k = "post" /\ o = "conflict" -> Reply("409", NoDoc)
      [] k = "post" -> Reply("500", NoDoc)
      [] k = "connect" /\ o = "success" -> Emit("state_updated", body)
      [] k = "connect" -> Emit("connection_error", NoDoc)
      [] k = "pull" /\ o = "success" -> Emit("state_updated", body)
      [] k = "pull" -> Emit("state_error", NoDoc)
      [] k = "saved" /\ o = "success" -> Emit("state_updated", body)
      [] k = "saved" /\ o = "conflict" -> Emit("state_conflict", NoDoc)
      [] OTHER -> Emit("state_error", NoDoc)

\* the handler sends its response or event and returns; its thread is free
Respond(t) ==
    /\ pc[t] = "respond"
    /\ sent' = [event |-> Response(kind[t], outcome[t], doc[t]).event,
                to |-> Response(kind[t], outcome[t], doc[t]).to,
                kind |-> kind[t], sid |-> sid[t],
                body |-> Response(kind[t], outcome[t], doc[t]).body]
    /\ pc' = [pc EXCEPT ![t] = "idle"]
    /\ kind' = [kind EXCEPT ![t] = "none"]
    /\ sid' = [sid EXCEPT ![t] = NoSid]
    /\ state' = [state EXCEPT ![t] = NoState]
    /\ doc' = [doc EXCEPT ![t] = NoDoc]
    /\ outcome' = [outcome EXCEPT ![t] = "none"]
    /\ own' = [own EXCEPT ![t] = 0]
    /\ attempt' = [attempt EXCEPT ![t] = 0]
    /\ pushed' = IF /\ recording
                    /\ sent'.event = "state_updated" /\ sent'.to /= {}
                    /\ sent'.body.version > pushed
                 THEN sent'.body.version ELSE pushed
    /\ UNCHANGED <<current_state_version, db, connected, sess, reg, commits,
                   lastSaved, saved, recording, dynVars>>

\* The handlers run on concurrent threads.
Next ==
    \/ \E t \in Threads : StartGet(t)
    \/ \E t \in Threads, s \in Sids : StartConnect(t, s)
    \/ \E s \in Sids : Disconnect(s)
    \/ \E t \in Threads, s \in Senders : StartPull(t, s)
    \/ \E t \in Threads, p \in RacePayloads :
         \E v \in ClientVersions(current_state_version) : StartPost(t, p, v)
    \/ \E t \in Threads, s \in Senders, p \in RacePayloads :
         \E v \in ClientVersions(current_state_version) : StartSaved(t, s, p, v)
    \/ \E t \in Threads : ReconcileStep(t)
    \/ \E t \in Threads : CommitStep(t)
    \/ \E t \in Threads, exc \in Exceptions : SaveFails(t, exc)
    \/ \E t \in Threads : BumpLoad(t)
    \/ \E t \in Threads : BumpStore(t)
    \/ \E t \in Threads : LoadStep(t)
    \/ \E t \in Threads : TagStep(t)
    \/ \E t \in Threads, exc \in Exceptions : LoadFails(t, exc)
    \/ \E t \in Threads : Respond(t)

Spec == Init /\ [][Next]_vars
SpecRec == InitRec /\ [][Next]_vars

\* One request at a time, each handler running to its end before the next
\* starts, with every payload.
AllIdle == \A t \in Threads : pc[t] = "idle"

NextSeq ==
    \/ AllIdle /\ \E t \in Threads : StartGet(t)
    \/ AllIdle /\ \E t \in Threads, s \in Sids : StartConnect(t, s)
    \/ AllIdle /\ \E s \in Sids : Disconnect(s)
    \/ AllIdle /\ \E t \in Threads, s \in Senders : StartPull(t, s)
    \/ AllIdle /\ \E t \in Threads, p \in Payloads :
         \E v \in ClientVersions(current_state_version) : StartPost(t, p, v)
    \/ AllIdle /\ \E t \in Threads, s \in Senders, p \in Payloads :
         \E v \in ClientVersions(current_state_version) : StartSaved(t, s, p, v)
    \/ \E t \in Threads : ReconcileStep(t)
    \/ \E t \in Threads : CommitStep(t)
    \/ \E t \in Threads, exc \in Exceptions : SaveFails(t, exc)
    \/ \E t \in Threads : BumpLoad(t)
    \/ \E t \in Threads : BumpStore(t)
    \/ \E t \in Threads : LoadStep(t)
    \/ \E t \in Threads : TagStep(t)
    \/ \E t \in Threads, exc \in Exceptions : LoadFails(t, exc)
    \/ \E t \in Threads : Respond(t)

SpecSeq == InitSeq /\ [][NextSeq]_vars

\* ---------------------------------------- DynamoDB variant: Lambda handlers
\* time passes
Tick ==
    /\ clock < MaxClock
    /\ clock' = clock + 1
    /\ UNCHANGED <<item, lpc, lreq, lstatus, sqlVars>>

\* app.py:12-45  get_state: one get_item, 404 when the table has no item
DynGetState(l) ==
    /\ lpc[l] = "idle"
    /\ lstatus' = [lstatus EXCEPT ![l] = IF item = Absent THEN "404" ELSE "200"]
    /\ lpc' = [lpc EXCEPT ![l] = "return"]
    /\ UNCHANGED <<clock, item, lreq, sqlVars>>

\* app.py:50-66  update_state up to the parse of the client's lastModified:
\* 400 when a field is missing, 500 when parser.parse raises
UpdateStart(l, body) ==
    /\ lpc[l] = "idle"
    /\ lreq' = [lreq EXCEPT ![l] = body]
    /\ IF body.state = Absent \/ body.lastModified = Absent
       THEN /\ lstatus' = [lstatus EXCEPT ![l] = "400"]
            /\ lpc' = [lpc EXCEPT ![l] = "return"]
       ELSE IF body.lastModified[1] = NotADate
       THEN /\ lstatus' = [lstatus EXCEPT ![l] = "500"]
            /\ lpc' = [lpc EXCEPT ![l] = "return"]
       ELSE /\ lpc' = [lpc EXCEPT ![l] = "get_item"]
            /\ UNCHANGED lstatus
    /\ UNCHANGED <<clock, item, sqlVars>>

\* app.py:73  client_last_modified < current_last_modified
OutOfDate(client_last_modified, current_last_modified) ==
    client_last_modified < current_last_modified

\* app.py:69-87  get_item and the comparison with the stored lastModified
UpdateGetItem(l) ==
    /\ lpc[l] = "get_item"
    /\ IF item /= Absent /\ OutOfDate(lreq[l].lastModified[1], item[1].lastModified)
       THEN /\ lstatus' = [lstatus EXCEPT ![l] = "409"]
            /\ lpc' = [lpc EXCEPT ![l] = "return"]
       ELSE /\ lpc' = [lpc EXCEPT ![l] = "put_item"]
            /\ UNCHANGED lstatus
    /\ UNCHANGED <<clock, item, lreq, sqlVars>>

\* app.py:90-105  put_item replaces the item, whatever it holds by now
UpdatePutItem(l) ==
    /\ lpc[l] = "put_item"
    /\ item' = Some([state |-> lreq[l].state[1], lastModified |-> clock])
    /\ lstatus' = [lstatus EXCEPT ![l] = "200"]
    /\ lpc' = [lpc EXCEPT ![l] = "return"]
    /\ UNCHANGED <<clock, lreq, sqlVars>>

\* app.py:106-115  get_item or put_item raises: 500
UpdateFails(l) ==
    /\ lpc[l] \in {"get_item", "put_item"}
    /\ lstatus' = [lstatus EXCEPT ![l] = "500"]
    /\ lpc' = [lpc EXCEPT ![l] = "return"]
    /\ UNCHANGED <<clock, item, lreq, sqlVars>>

\* the handler returns its response
Return(l) ==
    /\ lpc[l] = "return"
    /\ lpc' = [lpc EXCEPT ![l] = "idle"]
    /\ lreq' = [lreq EXCEPT ![l] = NoBody]
    /\ lstatus' = [lstatus EXCEPT ![l] = "none"]
    /\ UNCHANGED <<clock, item, sqlVars>>

NextDynamo ==
    \/ Tick
    \/ \E l \in Lambdas : DynGetState(l)
    \/ \E l \in Lambdas, body \in RequestBodies : UpdateStart(l, body)
    \/ \E l \in Lambdas : UpdateGetItem(l)
    \/ \E l \in Lambdas : UpdatePutItem(l)
    \/ \E l \in Lambdas : UpdateFails(l)
    \/ \E l \in Lambdas : Return(l)

\* the DynamoDB variant alone; the SQL backend's variables stay as booted
InitDynamo == Boot(EmptyDb) /\ recording = FALSE
SpecDynamo == InitDynamo /\ [][NextDynamo]_vars

\* ==================================================================== claims
\* thread t takes a step
Moved(t) == pc'[t] /= pc[t]

\* C1: a save is rejected as a conflict exactly when a claimed version is
\* supplied and is 6 or more behind the counter read by the check; a claimed
\* version 5 behind, or ahead of the counter, and a missing one are accepted;
\* the rejection is answered 409 (REST) or state_conflict (socket).
C1_StaleBoundary ==
    [][\A t \in Threads :
         /\ (pc[t] = "idle" /\ kind'[t] \in SaveKinds) =>
              LET c == state'[t].version IN
              /\ (outcome'[t] = "conflict") <=>
                   (c /= Absent /\ c[1] <= current_state_version - 6)
              /\ (c /= Absent /\ c[1] >= current_state_version - 5) =>
                   (pc'[t] = "reconcile" /\ outcome'[t] = "none")
              /\ c = Absent => pc'[t] = "reconcile"
         /\ (pc[t] = "respond" /\ outcome[t] = "conflict" /\ Moved(t)) =>
              sent'.event = IF kind[t] = "post" THEN "409" ELSE "state_conflict"
      ]_vars

\* C1 witness: one save rejected with a version 6 behind while another with a
\* version 5 behind has passed the check.
C1_Witness ==
    \E t, u \in Threads :
        /\ outcome[t] = "conflict"
        /\ state[t].version = Some(current_state_version - 6)
        /\ pc[u] = "reconcile"
        /\ state[u].version = Some(current_state_version - 5)

\* C2: the counter equals the number of saves that have committed and
\* finished their increment: no increment is lost or duplicated.
C2_VersionCountsCommits ==
    current_state_version =
        commits - Cardinality({t \in Threads : pc[t] \in {"bump_load", "bump_store"}})

\* C3: a step of a save that is rejected as a conflict (the rejection, and
\* the answer that follows) leaves every stored row and the counter unchanged.
C3_ConflictNoMutation ==
    [][\A t \in Threads :
         (Moved(t) /\ (outcome'[t] = "conflict" \/ outcome[t] = "conflict")) =>
             /\ db' = db
             /\ current_state_version' = current_state_version
      ]_vars

\* C3 witness: a conflict has been answered while the store holds people.
C3_Witness ==
    /\ sent.event \in {"409", "state_conflict"}
    /\ db.people /= {}

\* C4: a save that fails inside the try block leaves the stored rows as they
\* were, does not advance the counter, and answers with an error.
C4_FailedSaveAllOrNothing ==
    [][\A t \in Threads :
         /\ (pc[t] \in {"reconcile", "commit"} /\ outcome'[t] = "error") =>
              /\ db' = db
              /\ current_state_version' = current_state_version
              /\ pc'[t] = "respond"
         /\ (pc[t] = "respond" /\ kind[t] \in SaveKinds /\ outcome[t] = "error"
               /\ Moved(t)) =>
              /\ sent'.event \in {"500", "state_error"}
              /\ current_state_version' = current_state_version
      ]_vars

\* C4 witness: a save has failed before any save committed, and the store
\* still holds the rows it started with.
C4_Witness ==
    \E t \in Threads :
        /\ kind[t] \in SaveKinds
        /\ outcome[t] = "error"
        /\ commits = 0
        /\ db = StoreAlice

\* a step of a handler that only reads
ReaderStep(t) == Moved(t) /\ (kind[t] \in ReadKinds \/ kind'[t] \in ReadKinds)

\* C5 (as claimed): every step of GET /state, get_state and connect leaves
\* the counter and every stored row unchanged.
C5_ReadsChangeNothing ==
    [][\A t \in Threads :
         ReaderStep(t) =>
             /\ current_state_version' = current_state_version
             /\ db' = db
      ]_vars

\* C5 (amended): every step of a read handler leaves the counter, the lines,
\* the people and the wait queue unchanged and never changes an existing
\* config row; on a store with no config row it inserts one with the defaults.
C5_ReadsOnlyCreateConfig ==
    [][\A t \in Threads :
         ReaderStep(t) =>
             /\ current_state_version' = current_state_version
             /\ db'.lines = db.lines
             /\ db'.people = db.people
             /\ db'.wait = db.wait
             /\ db'.seq = db.seq
             /\ db.config /= <<>> => db'.config = db.config
             /\ db.config = <<>> => db'.config \in {<<>>, <<DefaultConfig>>}
      ]_vars

\* C5 witness: a read handler has queried a store that was empty.
C5_Witness ==
    \E t \in Threads :
        /\ kind[t] \in ReadKinds
        /\ pc[t] = "tag"
        /\ commits = 0
        /\ db.lines = {}
        /\ db.config = <<DefaultConfig>>

\* who receives a state_updated push with the last step
Pushed == IF sent.event = "state_updated" THEN sent.to ELSE {}

\* C6: a save that succeeded, REST or socket, pushes state_updated to every
\* connected subscriber.
C6_SaveIsBroadcast ==
    (sent.kind \in SaveKinds /\ sent.event \in {"200", "state_updated"}) =>
        connected \subseteq Pushed

\* C7: the answer to a get_state pull reaches only the connection that asked.
C7_PullOnlyToRequester ==
    (sent.kind = "pull" /\ sent.event = "state_updated") =>
        sent.to \subseteq {sent.sid}

\* C8: an error event reaches only the connection whose request caused it.
C8_ErrorsOnlyToOrigin ==
    sent.event \in {"state_conflict", "state_error", "connection_error"} =>
        sent.to \subseteq {sent.sid}

\* the session holds no row to delete and none to insert
NoRowChange(s) ==
    /\ s.delLines = {} /\ s.newLines = <<>>
    /\ s.delPeople = {} /\ s.addPeople = <<>>
    /\ s.delWait = {} /\ s.addWait = <<>>

\* C9: a save of the payload the previous save committed deletes no row and
\* inserts none.
C9_SecondApplyIdempotent ==
    \A t \in Threads :
        (pc[t] = "commit" /\ Payload(state[t]) = lastSaved) => NoRowChange(sess[t])

\* a payload with a config object holding every field, with unique line names
ValidDocument(p) ==
    /\ p.config /= Absent
    /\ LET c == p.config[1] IN
       /\ \A f \in DOMAIN c : c[f] /= Absent
       /\ \A i, j \in 1..Len(c.lines[1]) :
            c.lines[1][i].name = c.lines[1][j].name => i = j

Names(people) == {people[k].name : k \in 1..Len(people)}

\* the loaded content equals the config body but for ids
SameDocument(content, c) ==
    /\ content.sessionDuration = c.sessionDuration[1]
    /\ content.alarmInterval = c.alarmInterval[1]
    /\ content.maxPeoplePerLine = c.maxPeoplePerLine[1]
    /\ content.blinkBeforeStart = c.blinkBeforeStart[1]
    /\ content.blinkTime = c.blinkTime[1]
    /\ content.finishWindow = c.finishWindow[1]
    /\ content.autoReschedule = c.autoReschedule[1]
    /\ Cardinality(content.lines) = Len(c.lines[1])
    /\ \A i \in 1..Len(c.lines[1]) :
         \E l \in content.lines :
             /\ l.name = c.lines[1][i].name
             /\ l.time = c.lines[1][i].time
             /\ {q.name : q \in l.people} = Names(c.lines[1][i].people)
             /\ Cardinality(l.people) = Len(c.lines[1][i].people)
    /\ {w.name : w \in content.generalWaitQueue} = Names(c.generalWaitQueue[1])
    /\ Cardinality(content.generalWaitQueue) = Len(c.generalWaitQueue[1])

\* C10: the document a successful save of a valid document reloads equals
\* that document but for ids.
C10_RoundTrip ==
    \A t \in Threads :
        (/\ kind[t] \in SaveKinds
         /\ pc[t] = "respond"
         /\ outcome[t] = "success"
         /\ ValidDocument(lastSaved)) =>
            SameDocument(doc[t].config, lastSaved.config[1])

\* C11: every stored person references a stored line: no save, alone or
\* interleaved with another, leaves a person whose line is gone.
C11_NoOrphanPeople ==
    \A p \in db.people : \E l \in db.lines : l.id = p.line_id

\* the stores a save of payload p can leave when it runs alone on store d
\* (the queries, the diff and the commit with no other save in between)
SaveAlone(d, p) ==
    {Flush(d, Reconcile(d, e, Get(p.config, EmptyDict))) :
        e \in {x \in ExistingLineDicts(d) :
                 ~Reconcile(d, x, Get(p.config, EmptyDict)).raised}}

\* the stores the saves of payloads ps can leave when run one after another
RECURSIVE SavesInSequence(_, _)
SavesInSequence(D, ps) ==
    IF ps = <<>> THEN D
    ELSE SavesInSequence(UNION {SaveAlone(d, Head(ps)) : d \in D}, Tail(ps))

\* the orders in which the committed saves can be arranged
Orders(n) == {f \in [1..n -> 1..n] : \A i, j \in 1..n : f[i] = f[j] => i = j}

\* C12: the stored rows are those that the committed saves, run one at a
\* time in some order from the initial store, would have left: never a merge
\* of two saves, a lost delete or a double insert.
C12_SavesSerialized ==
    db \in UNION {SavesInSequence({StoreAlice},
                                  [i \in 1..Len(saved) |-> saved[f[i]].payload]) :
                  f \in Orders(Len(saved))}

\* the strings, among the values of maxPeoplePerLine in use, that spell a
\* positive integer
PositiveIntegerStrings == {"8", "10"}

\* C13: the maxPeoplePerLine stored, and the one a load returns, always spells
\* a positive integer (a missing or non-numeric value is saved as "10").
C13_MaxPeopleIsPositiveInteger ==
    /\ \A i \in 1..Len(db.config) :
          db.config[i].max_people_per_line \in PositiveIntegerStrings
    /\ \A t \in Threads :
          doc[t].config /= NoContent =>
              doc[t].config.maxPeoplePerLine \in PositiveIntegerStrings

\* C14: no two stored lines have the same name.
C14_LineNamesUnique ==
    \A l1, l2 \in db.lines : l1.name = l2.name => l1 = l2

\* C15: a save whose payload has no "config" key reconciles the keys found at
\* the top level of the payload as if they had been sent under "config".
C15_BarePayloadIsConfig ==
    \A t \in Threads :
        (pc[t] = "commit" /\ state[t].config = Absent) =>
            sess[t] \in {Reconcile(db, e, state[t].top) : e \in ExistingLineDicts(db)}

\* C16: a handler whose storage operation failed with a transient error
\* answers an error only when the retry loop is on its last attempt: before
\* that the operation is run again.
C16_RetriedUntilExhausted ==
    \A t \in Threads :
        (pc[t] = "respond" /\ outcome[t] = "error" /\ attempt[t] > 0) =>
            attempt[t] = max_retries - 1

\* the content stored after the first n commits
ContentAfter(n) == IF n = 0 THEN Content(StoreAlice) ELSE saved[n].content

\* C17: the document a read is about to return is a whole state of the
\* document: tagged with version n, its content is the content stored after
\* n commits, never the content of one side of a commit with the version of
\* the other side.
C17_ReadsAtomic ==
    \A t \in Threads :
        (kind[t] \in ReadKinds /\ pc[t] = "respond" /\ outcome[t] = "success") =>
            /\ doc[t].version \in 0..Len(saved)
            /\ doc[t].config = ContentAfter(doc[t].version)

\* C18: the document a successful save is about to return or broadcast is
\* tagged with the version of that save's own commit (the n-th commit gives
\* version n) and holds the content that commit left stored.
C18_SaveReturnsOwnVersion ==
    \A t \in Threads :
        (kind[t] \in SaveKinds /\ pc[t] = "respond" /\ outcome[t] = "success") =>
            /\ doc[t].version = own[t]
            /\ doc[t].config = saved[own[t]].content

\* C19: a state_updated that reaches a client never carries a version lower
\* than one pushed before it: the pushed versions are non-decreasing.
C19_PushedVersionsNonDecreasing ==
    [][(sent'.event = "state_updated" /\ sent'.to /= {}) =>
           sent'.body.version >= pushed
      ]_vars

\* C20 (DynamoDB variant): put_item never replaces an item whose
\* lastModified is later than the lastModified the request carries: such a
\* request is answered 409 and leaves the item as it is.
C20_NeverOverwritesNewer ==
    [][\A l \in Lambdas :
         (lpc[l] \in {"get_item", "put_item"} /\ lpc'[l] = "return"
            /\ item /= Absent
            /\ OutOfDate(lreq[l].lastModified[1], item[1].lastModified)) =>
             /\ item' = item
             /\ lstatus'[l] \in {"409", "500"}
      ]_vars

====
